---- MODULE Spec2Model ----
(***************************************************************************)
(* A model of csrc/sparse/cutlass/sparse_scaled_mm_c3x.cuh: the epilogue   *)
(* visitor trees of the four ScaledEpilogue variants, the construction of  *)
(* their arguments from tensors, the per-type kernel configurations and    *)
(* the host-side caller that checks, sizes, allocates and launches.        *)
(***************************************************************************)
EXTENDS Integers, Sequences, FiniteSets, TLC

(***************************************************************************)
(* Bounds of the model.                                                    *)
(***************************************************************************)
\* Largest number of rows (M) and of columns (N) of an output tile.
MaxM == 2
MaxN == 2

(***************************************************************************)
(* Integers of 32 bits (int32_t), two's complement, wrapping.              *)
(***************************************************************************)
MaxInt32 == 2147483647
MinInt32 == -MaxInt32 - 1

Abs(x) == IF x < 0 THEN -x ELSE x
Sgn(x) == IF x < 0 THEN -1 ELSE IF x = 0 THEN 0 ELSE 1
Max(a, b) == IF a >= b THEN a ELSE b
Min(a, b) == IF a <= b THEN a ELSE b

\* a + b in int32_t; no intermediate value leaves the 32-bit range.
Add32(a, b) ==
  IF b > 0 /\ a > MaxInt32 - b
    THEN (a - MaxInt32 - 1) + (b - MaxInt32 - 1)
    ELSE IF b < 0 /\ a < MinInt32 - b
      THEN (a + MaxInt32 + 1) + (b + MaxInt32 + 1)
      ELSE a + b

Neg32(a) == IF a = MinInt32 THEN MinInt32 ELSE -a

\* x reduced to 16 bits, as a signed value.
Wrap16(x) == LET r == x % 65536 IN IF r >= 32768 THEN r - 65536 ELSE r

\* a * c in int32_t for -256 <= c <= 256, from the two 16-bit halves of a.
MulSmall(a, c) ==
  LET al == a % 65536
      ah == (a - al) \div 65536
  IN  Add32(Wrap16(ah * c) * 65536, al * c)

\* a * b in int32_t, eight bits of b at a time: b = 256 * (b \div 256) +
\* (b % 256); no intermediate value leaves the 32-bit range.
RECURSIVE Mul32(_, _)
Mul32(a, b) ==
  IF -256 <= b /\ b <= 256
    THEN MulSmall(a, b)
    ELSE Add32(MulSmall(Mul32(a, b \div 256), 256), MulSmall(a, b % 256))

(***************************************************************************)
(* Binary floating point.  A finite value is <<m, e>>, standing for        *)
(* m * 2^e, with m odd (or <<0, 0>>); an infinity is <<+-1, InfExp>>,      *)
(* the power of two no finite value of any of the formats reaches.         *)
(* A format is its precision p (significand bits), the exponent qmin of    *)
(* its smallest subnormal and emax, where 2^emax is the first power of two *)
(* that overflows.                                                         *)
(***************************************************************************)
Float32  == [p |-> 24, qmin |-> -149, emax |-> 128]
Half     == [p |-> 11, qmin |-> -24,  emax |-> 16]
BFloat16 == [p |-> 8,  qmin |-> -133, emax |-> 128]

InfExp == Float32.emax
Inf(s) == <<s, InfExp>>
IsInf(x) == x[2] = InfExp

RECURSIVE BitLen(_)
BitLen(n) == IF n = 0 THEN 0 ELSE 1 + BitLen(n \div 2)

RECURSIVE Pow2(_)
Pow2(k) == IF k = 0 THEN 1 ELSE 2 * Pow2(k - 1)

RECURSIVE Normalize(_, _)
Normalize(m, e) ==
  IF m = 0 THEN <<0, 0>>
  ELSE IF m % 2 = 0 THEN Normalize(m \div 2, e + 1)
  ELSE <<m, e>>

\* The value m * 2^e rounded to format f, to nearest, ties to even.
RoundTo(f, m, e) ==
  LET a == Abs(m)
      L == BitLen(a)
      k == Max(L - f.p, f.qmin - e)
  IN  IF m = 0 THEN <<0, 0>>
      ELSE IF k <= 0
        THEN IF L + e > f.emax THEN Inf(Sgn(m)) ELSE Normalize(m, e)
      ELSE IF k > L + 1 THEN <<0, 0>>
      ELSE LET q  == a \div Pow2(k)
               r  == a % Pow2(k)
               h  == Pow2(k - 1)
               qq == IF r > h \/ (r = h /\ q % 2 = 1) THEN q + 1 ELSE q
           IN  IF BitLen(qq) + e + k > f.emax
                 THEN Inf(Sgn(m))
                 ELSE Normalize(Sgn(m) * qq, e + k)

\* a * b and a * b + c in format f, each rounded once.
Mul(f, a, b) == RoundTo(f, a[1] * b[1], a[2] + b[2])

\* m1 * 2^e1 + m2 * 2^e2 rounded once to format f.  The operand of the
\* larger exponent is shifted left as far as 30 bits allow; what the other
\* one then loses on its right is kept as a sticky lowest bit, which rounds
\* as the exact sum does while that operand stays below 2^26 units.
AddRound(f, m1, e1, m2, e2) ==
  IF m1 = 0 THEN RoundTo(f, m2, e2)
  ELSE IF m2 = 0 THEN RoundTo(f, m1, e1)
  ELSE LET mh == IF e1 >= e2 THEN m1 ELSE m2
           eh == Max(e1, e2)
           ml == IF e1 >= e2 THEN m2 ELSE m1
           el == Min(e1, e2)
           g  == Min(eh - el, Max(0, 30 - BitLen(Abs(mh))))
           r  == eh - el - g
           L  == BitLen(Abs(ml))
       IN  IF r = 0 \/ L - r > 26
             THEN RoundTo(f, mh * Pow2(eh - el) + ml, el)
             ELSE LET q == IF r > L THEN 0 ELSE Abs(ml) \div Pow2(r)
                      t == IF q % 2 = 0 /\ Abs(ml) # q * Pow2(Min(r, L)) THEN q + 1 ELSE q
                  IN  RoundTo(f, mh * Pow2(g) + Sgn(ml) * t, el + r)

MulAdd(f, a, b, c) == AddRound(f, a[1] * b[1], a[2] + b[2], c[1], c[2])

FMul(a, b) == Mul(Float32, a, b)

FMulAdd(a, b, c) == MulAdd(Float32, a, b, c)

(***************************************************************************)
(* Element types and numeric conversion.  A typed value is [t, v]: v is an *)
(* integer when t is int32_t and a floating-point value otherwise.         *)
(***************************************************************************)
Format(T) ==
  CASE T = "float" -> Float32
    [] T = "half" -> Half
    [] T = "bfloat16" -> BFloat16

\* NumericConverter<To, From, round_to_nearest>.
Convert(To, From, v) ==
  IF To = From THEN v
  ELSE IF From = "int32_t" THEN RoundTo(Format(To), v, 0)
  ELSE IF IsInf(v) THEN v
  ELSE RoundTo(Format(To), v[1], v[2])

Zero(T) == IF T = "int32_t" THEN 0 ELSE <<0, 0>>

(***************************************************************************)
(* Tensors.  A torch::Tensor is its logical shape and its elements in      *)
(* storage order; an optional tensor is a sequence of at most one tensor.  *)
(* A pointer is null or the storage it points to.                          *)
(***************************************************************************)
RECURSIVE Product(_)
Product(s) == IF s = <<>> THEN 1 ELSE Head(s) * Product(Tail(s))

numel(tensor) == Product(tensor.shape)

data_ptr(tensor) == [null |-> FALSE, mem |-> tensor.data]

nullptr == [null |-> TRUE, mem |-> <<>>]

\* What a read of element k (from 1) of type T through ptr yields.  A read
\* outside the storage yields a value that no tensor of the model holds.
Unspecified(T) == IF T = "int32_t" THEN MinInt32 ELSE <<-7, 3>>

Deref(T, ptr, k) ==
  IF ~ptr.null /\ k \in DOMAIN ptr.mem THEN ptr.mem[k] ELSE Unspecified(T)

(***************************************************************************)
(* The load descriptors of ScaledEpilogueBase and the nodes of a visitor   *)
(* tree.                                                                   *)
(***************************************************************************)
Accum == [node |-> "Sm90AccFetch"]

ColOrScalarLoad(T) == [node |-> "Sm90ColOrScalarBroadcast", T |-> T]

RowOrScalarLoad(T) == [node |-> "Sm90RowOrScalarBroadcast", T |-> T]

ColLoad(T, EnableNullPtr) ==
  [node |-> "Sm90ColBroadcast", T |-> T, EnableNullPtr |-> EnableNullPtr]

RowLoad(T, EnableNullPtr) ==
  [node |-> "Sm90RowBroadcast", T |-> T, EnableNullPtr |-> EnableNullPtr]

Sm90Compute(ComputeFn, ElementOutput, ElementCompute) ==
  [node |-> "Sm90Compute", fn |-> ComputeFn, out |-> ElementOutput,
   compute |-> ElementCompute]

Sm90EVT(NodeOp, Children) ==
  [node |-> "Sm90EVT", op |-> NodeOp, children |-> Children]

IsOrScalar(Descriptor) ==
  Descriptor.node \in {"Sm90ColOrScalarBroadcast", "Sm90RowOrScalarBroadcast"}

IsNullable(Descriptor) ==
  /\ Descriptor.node \in {"Sm90ColBroadcast", "Sm90RowBroadcast"}
  /\ Descriptor.EnableNullPtr

\* args_from_tensor(torch::Tensor const&): the pointer, and for a
\* row/column-or-scalar descriptor the flag that selects the vector.
\* Faulty variants of the flag: from the first extent, and inverted.
args_from_tensor_flag_size0(tensor) == tensor.shape[1] # 1

args_from_tensor_flag_inverted(tensor) == numel(tensor) = 1

args_from_tensor_flag(tensor) == numel(tensor) # 1

args_from_tensor(Descriptor, tensor) ==
  IF IsOrScalar(Descriptor)
    THEN [ptr |-> data_ptr(tensor), broadcast |-> args_from_tensor_flag(tensor)]
    ELSE [ptr |-> data_ptr(tensor)]

\* args_from_tensor(c10::optional<torch::Tensor> const&).
args_from_optional(Descriptor, tensor) ==
  [ptr |-> IF tensor # <<>> THEN data_ptr(tensor[1]) ELSE nullptr]

\* The loaders: the value a load node hands to its parent for element
\* (i, j) of the output, i the row and j the column, both from 1.
LoadColOrScalar(d, a, i, j) ==
  [t |-> d.T, v |-> IF a.broadcast THEN Deref(d.T, a.ptr, i) ELSE Deref(d.T, a.ptr, 1)]

LoadRowOrScalar(d, a, i, j) ==
  [t |-> d.T, v |-> IF a.broadcast THEN Deref(d.T, a.ptr, j) ELSE Deref(d.T, a.ptr, 1)]

LoadCol(d, a, i, j) ==
  [t |-> d.T,
   v |-> IF d.EnableNullPtr /\ a.ptr.null THEN Zero(d.T) ELSE Deref(d.T, a.ptr, i)]

LoadRow(d, a, i, j) ==
  [t |-> d.T,
   v |-> IF d.EnableNullPtr /\ a.ptr.null THEN Zero(d.T) ELSE Deref(d.T, a.ptr, j)]

\* The compute functors, on operands already converted to type T.
multiplies(T, x) ==
  IF T = "int32_t" THEN Mul32(x[1], x[2]) ELSE Mul(Format(T), x[1], x[2])

minus(T, x) ==
  IF T = "int32_t"
    THEN Add32(x[1], Neg32(x[2]))
    ELSE MulAdd(Format(T), <<-1, 0>>, x[2], x[1])

multiply_add(T, x) == MulAdd(Format(T), x[1], x[2], x[3])

\* Sm90Compute: convert every input to ElementCompute, apply the functor,
\* convert the result to ElementOutput.
VisitCompute(op, ins) ==
  LET x == [k \in DOMAIN ins |-> Convert(op.compute, ins[k].t, ins[k].v)]
      r == CASE op.fn = "multiplies" -> multiplies(op.compute, x)
             [] op.fn = "minus" -> minus(op.compute, x)
             [] op.fn = "multiply_add" -> multiply_add(op.compute, x)
  IN  [t |-> op.out, v |-> Convert(op.out, op.compute, r)]

\* The arguments of child k of a tree: those given, else the default ones.
ChildArgs(args, k) == IF k <= Len(args) THEN args[k] ELSE <<>>

\* Sm90EVT: visit the children in order and apply the node operation to
\* their results, in that order.
RECURSIVE Visit(_, _, _, _, _)
Visit(evt, args, acc, i, j) ==
  CASE evt.node = "Sm90AccFetch" -> acc
    [] evt.node = "Sm90ColOrScalarBroadcast" -> LoadColOrScalar(evt, args, i, j)
    [] evt.node = "Sm90RowOrScalarBroadcast" -> LoadRowOrScalar(evt, args, i, j)
    [] evt.node = "Sm90ColBroadcast" -> LoadCol(evt, args, i, j)
    [] evt.node = "Sm90RowBroadcast" -> LoadRow(evt, args, i, j)
    [] evt.node = "Sm90EVT" ->
         VisitCompute(evt.op,
           [k \in DOMAIN evt.children |->
              Visit(evt.children[k], ChildArgs(args, k), acc, i, j)])

(***************************************************************************)
(* The four epilogues.  Each is its visitor tree EVTCompute, for an output *)
(* element type ElementD, and prepare_args, which builds the tree's        *)
(* arguments: those of the children in order (the node's own are default). *)
(***************************************************************************)
ScaleA == ColOrScalarLoad("float")
ScaleB == RowOrScalarLoad("float")

\* ScaledEpilogue
ScaledEpilogue_Compute0 == Sm90Compute("multiplies", "float", "float")

ScaledEpilogue_EVTCompute0 == Sm90EVT(ScaledEpilogue_Compute0, <<ScaleB, Accum>>)

\* Faulty variant: the last product computed in the output type.
ScaledEpilogue_Compute1_InElementD(ElementD) ==
  Sm90Compute("multiplies", ElementD, ElementD)

ScaledEpilogue_Compute1(ElementD) == Sm90Compute("multiplies", ElementD, "float")

ScaledEpilogue_EVTCompute(ElementD) ==
  Sm90EVT(ScaledEpilogue_Compute1(ElementD), <<ScaleA, ScaledEpilogue_EVTCompute0>>)

ScaledEpilogue_prepare_args(a_scales, b_scales) ==
  LET a_args == args_from_tensor(ScaleA, a_scales)
      b_args == args_from_tensor(ScaleB, b_scales)
      evt0_args == <<b_args>>
  IN  <<a_args, evt0_args>>

\* ScaledEpilogueBias
\* Faulty variant: the bias read by row.
ScaledEpilogueBias_Bias_ByRow(ElementD) == ColLoad(ElementD, FALSE)

ScaledEpilogueBias_Bias(ElementD) == RowLoad(ElementD, FALSE)

ScaledEpilogueBias_Compute0 == Sm90Compute("multiplies", "float", "float")

ScaledEpilogueBias_EVTCompute0 ==
  Sm90EVT(ScaledEpilogueBias_Compute0, <<ScaleB, Accum>>)

ScaledEpilogueBias_Compute1(ElementD) == Sm90Compute("multiply_add", ElementD, "float")

ScaledEpilogueBias_EVTCompute(ElementD) ==
  Sm90EVT(ScaledEpilogueBias_Compute1(ElementD),
          <<ScaleA, ScaledEpilogueBias_EVTCompute0, ScaledEpilogueBias_Bias(ElementD)>>)

ScaledEpilogueBias_prepare_args(ElementD, a_scales, b_scales, bias) ==
  LET a_args == args_from_tensor(ScaleA, a_scales)
      b_args == args_from_tensor(ScaleB, b_scales)
      bias_args == args_from_tensor(ScaledEpilogueBias_Bias(ElementD), bias)
      evt0_args == <<b_args>>
  IN  <<a_args, evt0_args, bias_args>>

\* ScaledEpilogueBiasAzp
\* Faulty variant: the bias descriptor without EnableNullPtr.
ScaledEpilogueBiasAzp_Bias_NotNullable(ElementD) == RowLoad(ElementD, FALSE)

ScaledEpilogueBiasAzp_Bias(ElementD) == RowLoad(ElementD, TRUE)

\* Faulty variant: the adjustment read by row.
AzpWithAdj_ByRow == ColLoad("int32_t", FALSE)

AzpWithAdj == RowLoad("int32_t", FALSE)

ScaledEpilogueBiasAzp_ComputeAzp == Sm90Compute("minus", "float", "int32_t")

ScaledEpilogueBiasAzp_EVTComputeAzp ==
  Sm90EVT(ScaledEpilogueBiasAzp_ComputeAzp, <<Accum, AzpWithAdj>>)

ScaledEpilogueBiasAzp_ComputeScaleB == Sm90Compute("multiplies", "float", "float")

ScaledEpilogueBiasAzp_EVTComputeScaleB ==
  Sm90EVT(ScaledEpilogueBiasAzp_ComputeScaleB,
          <<ScaleB, ScaledEpilogueBiasAzp_EVTComputeAzp>>)

ScaledEpilogueBiasAzp_ComputeScaleBiasA(ElementD) ==
  Sm90Compute("multiply_add", ElementD, "float")

ScaledEpilogueBiasAzp_EVTCompute(ElementD) ==
  Sm90EVT(ScaledEpilogueBiasAzp_ComputeScaleBiasA(ElementD),
          <<ScaleA, ScaledEpilogueBiasAzp_EVTComputeScaleB,
            ScaledEpilogueBiasAzp_Bias(ElementD)>>)

ScaledEpilogueBiasAzp_prepare_args(ElementD, a_scales, b_scales, azp_adj, bias) ==
  LET a_args == args_from_tensor(ScaleA, a_scales)
      b_args == args_from_tensor(ScaleB, b_scales)
      bias_args == args_from_optional(ScaledEpilogueBiasAzp_Bias(ElementD), bias)
      azp_adj_args == args_from_tensor(AzpWithAdj, azp_adj)
      evt_azp_args == <<<<>>, azp_adj_args>>
      evt_scale_b_args == <<b_args, evt_azp_args>>
  IN  <<a_args, evt_scale_b_args, bias_args>>

\* ScaledEpilogueBiasAzpToken
ScaledEpilogueBiasAzpToken_Bias(ElementD) == RowLoad(ElementD, TRUE)

\* Faulty variant: the zero point read by column.
Azp_ByColumn == RowLoad("int32_t", FALSE)

Azp == ColLoad("int32_t", FALSE)

AzpAdj == RowLoad("int32_t", FALSE)

\* Faulty variant: azp - azp_adj in place of azp * azp_adj.
ScaledEpilogueBiasAzpToken_ComputeAzp_Minus ==
  Sm90Compute("minus", "int32_t", "int32_t")

ScaledEpilogueBiasAzpToken_ComputeAzp == Sm90Compute("multiplies", "int32_t", "int32_t")

ScaledEpilogueBiasAzpToken_EVTComputeAzp ==
  Sm90EVT(ScaledEpilogueBiasAzpToken_ComputeAzp, <<Azp, AzpAdj>>)

\* Faulty variant: the operands converted to float before the subtraction.
ScaledEpilogueBiasAzpToken_ComputeAcc_InFloat == Sm90Compute("minus", "float", "float")

ScaledEpilogueBiasAzpToken_ComputeAcc == Sm90Compute("minus", "float", "int32_t")

ScaledEpilogueBiasAzpToken_EVTComputeAcc ==
  Sm90EVT(ScaledEpilogueBiasAzpToken_ComputeAcc,
          <<Accum, ScaledEpilogueBiasAzpToken_EVTComputeAzp>>)

ScaledEpilogueBiasAzpToken_ComputeScaleB == Sm90Compute("multiplies", "float", "float")

ScaledEpilogueBiasAzpToken_EVTComputeScaleB ==
  Sm90EVT(ScaledEpilogueBiasAzpToken_ComputeScaleB,
          <<ScaleB, ScaledEpilogueBiasAzpToken_EVTComputeAcc>>)

ScaledEpilogueBiasAzpToken_ComputeScaleBiasA(ElementD) ==
  Sm90Compute("multiply_add", ElementD, "float")

ScaledEpilogueBiasAzpToken_EVTCompute(ElementD) ==
  Sm90EVT(ScaledEpilogueBiasAzpToken_ComputeScaleBiasA(ElementD),
          <<ScaleA, ScaledEpilogueBiasAzpToken_EVTComputeScaleB,
            ScaledEpilogueBiasAzpToken_Bias(ElementD)>>)

ScaledEpilogueBiasAzpToken_prepare_args(ElementD, a_scales, b_scales, azp_adj, azp, bias) ==
  LET a_args == args_from_tensor(ScaleA, a_scales)
      b_args == args_from_tensor(ScaleB, b_scales)
      bias_args == args_from_optional(ScaledEpilogueBiasAzpToken_Bias(ElementD), bias)
      azp_args == args_from_tensor(Azp, azp)
      azp_adj_args == args_from_tensor(AzpAdj, azp_adj)
      evt_azp_args == <<azp_args, azp_adj_args>>
      evt_acc_args == <<<<>>, evt_azp_args>>
      evt_scale_b_args == <<b_args, evt_acc_args>>
  IN  <<a_args, evt_scale_b_args, bias_args>>

(***************************************************************************)
(* cutlass_3x_gemm<..., Epilogue_, ...>: the epilogue a kernel is          *)
(* assembled with, and the call Gemm::Epilogue::prepare_args(params...)    *)
(* on the epilogue tensors p of a call.                                    *)
(***************************************************************************)
Epilogues ==
  {"ScaledEpilogue", "ScaledEpilogueBias", "ScaledEpilogueBiasAzp",
   "ScaledEpilogueBiasAzpToken"}

EVTCompute(Epilogue, ElementD) ==
  CASE Epilogue = "ScaledEpilogue" -> ScaledEpilogue_EVTCompute(ElementD)
    [] Epilogue = "ScaledEpilogueBias" -> ScaledEpilogueBias_EVTCompute(ElementD)
    [] Epilogue = "ScaledEpilogueBiasAzp" -> ScaledEpilogueBiasAzp_EVTCompute(ElementD)
    [] Epilogue = "ScaledEpilogueBiasAzpToken" ->
         ScaledEpilogueBiasAzpToken_EVTCompute(ElementD)

prepare_args(Epilogue, ElementD, p) ==
  CASE Epilogue = "ScaledEpilogue" ->
         ScaledEpilogue_prepare_args(p.a_scales, p.b_scales)
    [] Epilogue = "ScaledEpilogueBias" ->
         ScaledEpilogueBias_prepare_args(ElementD, p.a_scales, p.b_scales, p.bias[1])
    [] Epilogue = "ScaledEpilogueBiasAzp" ->
         ScaledEpilogueBiasAzp_prepare_args(ElementD, p.a_scales, p.b_scales,
                                            p.azp_adj, p.bias)
    [] Epilogue = "ScaledEpilogueBiasAzpToken" ->
         ScaledEpilogueBiasAzpToken_prepare_args(ElementD, p.a_scales, p.b_scales,
                                                 p.azp_adj, p.azp, p.bias)

\* The epilogue of one kernel on an accumulator tile: element (i, j) of the
\* output is the tree's value there, of type ElementD.
EpilogueTile(Epilogue, ElementD, args, accum) ==
  [i \in DOMAIN accum |->
     [j \in DOMAIN accum[i] |->
        Visit(EVTCompute(Epilogue, ElementD), args, accum[i][j], i, j).v]]

(***************************************************************************)
(* The epilogue of one kernel, as a state machine: the epilogue tensors of *)
(* a call, the arguments prepare_args builds from them, the accumulator    *)
(* tile the mainloop hands over and the output tile D.                     *)
(***************************************************************************)
\* The state of the epilogue of one kernel.
VARIABLES problem, evt_args, accum, D, epc

epiVars == <<problem, evt_args, accum, D, epc>>

\* The state of the selection of a configuration.
VARIABLES query, config

cfgVars == <<query, config>>

\* The state of the calls of cutlass_sparse_gemm_caller, of the allocator
\* and of the device.
VARIABLES pc, input, gemm, gemm_args, can_status, workspace_size, workspace,
          run_status, heap, pending, launches, out, arch

callVars == <<pc, input, gemm, gemm_args, can_status, workspace_size, workspace,
              run_status, heap, pending, launches, out, arch>>

vars == <<epiVars, cfgVars, callVars>>

\* The values the tensors of the model hold.  Scales: 0.5, 0.25, 3 * 2^-10
\* and 5 * 2^-10.  Bias: 1.5, -0.25 and 5 (all exact in half and bfloat16).
ScaleVals == << <<1, -1>>, <<1, -2>>, <<3, -10>>, <<5, -10>> >>
BiasVals == << <<3, -1>>, <<-1, -2>>, <<5, 0>> >>
AzpVals == <<3, -2, 5>>
AzpAdjVals == <<4, -6, 9>>

\* Accumulators: small ones, two for which the order of the two scale
\* multiplications decides the rounded output (in half, in bfloat16), one
\* that float does not hold exactly and, for int32_t, one next to the least
\* value of the type.
AccVals(ElementAcc) ==
  IF ElementAcc = "int32_t"
    THEN <<7, -3, 3363089, 3469039, 16777217, -MaxInt32>>
    ELSE << <<3, -1>>, <<-5, 0>>, <<3363089, -4>>, <<3469039, 0>>, <<16777215, 1>> >>

\* A vector of length len that runs through vals from position k on.
Ramp(vals, k, len) == [x \in 1..len |-> vals[((k + x - 2) % Len(vals)) + 1]]

Const(c, len) == [x \in 1..len |-> c]

\* The scale tensors of a call: one-element tensors of shape (1) and (1,1),
\* and vectors of shape vshape, constant and not.
ScaleTensors(len, vshape) ==
       {[shape |-> <<1>>, data |-> <<ScaleVals[2]>>]}
  \cup {[shape |-> <<1, 1>>, data |-> <<ScaleVals[1]>>]}
  \cup {[shape |-> vshape, data |-> Const(ScaleVals[3], len)]}
  \cup {[shape |-> vshape, data |-> Ramp(ScaleVals, 3, len)]}

BiasTensors(N) == {[shape |-> <<N>>, data |-> Ramp(BiasVals, k, N)] : k \in {1, 2}}

AzpTensors(M) ==
       {[shape |-> <<M, 1>>, data |-> Const(AzpVals[2], M)]}
  \cup {[shape |-> <<M, 1>>, data |-> Ramp(AzpVals, 1, M)]}

AzpAdjTensors(N) ==
       {[shape |-> <<1, N>>, data |-> Ramp(AzpAdjVals, k, N)] : k \in {1, 2}}
  \cup {[shape |-> <<1, N>>, data |-> Const(Pow2(30), N)]}

\* A tensor a call does not pass.
NoTensor == [shape |-> <<0>>, data |-> <<>>]

HasAzp(ep) == ep \in {"ScaledEpilogueBiasAzp", "ScaledEpilogueBiasAzpToken"}

\* The calls of the model: an epilogue, the element types the kernel is
\* assembled for, the output shape and the epilogue tensors.  The zero-point
\* epilogues are used with int32_t accumulators, and their bias is optional.
ProblemsFor(ep, d, m, n) ==
  {[Epilogue |-> ep, ElementD |-> d, ElementAcc |-> ea, M |-> m, N |-> n,
    a_scales |-> sa, b_scales |-> sb, bias |-> bi, azp |-> zp, azp_adj |-> za] :
     ea \in IF HasAzp(ep) THEN {"int32_t"} ELSE {"int32_t", "float"},
     sa \in ScaleTensors(m, <<m, 1>>),
     sb \in ScaleTensors(n, <<1, n>>),
     bi \in CASE ep = "ScaledEpilogue" -> {<<>>}
              [] ep = "ScaledEpilogueBias" -> {<<b>> : b \in BiasTensors(n)}
              [] OTHER -> {<<>>, <<[shape |-> <<n>>, data |-> Ramp(BiasVals, 1, n)]>>},
     zp \in IF ep = "ScaledEpilogueBiasAzpToken" THEN AzpTensors(m) ELSE {NoTensor},
     za \in IF HasAzp(ep) THEN AzpAdjTensors(n) ELSE {NoTensor}}

Problems ==
  UNION {ProblemsFor(ep, d, m, n) :
           ep \in Epilogues, d \in {"half", "bfloat16"}, m \in 1..MaxM, n \in 1..MaxN}

\* The accumulator tile the mainloop produces: M x N typed values.
AccumTile(ElementAcc, M, N, seed) ==
  [i \in 1..M |->
     [j \in 1..N |->
        [t |-> ElementAcc,
         v |-> AccVals(ElementAcc)[((seed + (i - 1) * N + j - 2)
                                       % Len(AccVals(ElementAcc))) + 1]]]]

EpiInit ==
  /\ problem \in Problems
  /\ evt_args = <<>>
  /\ accum = <<>>
  /\ D = <<>>
  /\ epc = "init"

\* Gemm::Epilogue::prepare_args(epilogue_params...)
EpiPrepareArgs ==
  /\ epc = "init"
  /\ evt_args' = prepare_args(problem.Epilogue, problem.ElementD, problem)
  /\ epc' = "args"
  /\ UNCHANGED <<problem, accum, D>>
  /\ UNCHANGED <<cfgVars, callVars>>

\* The kernel: the mainloop's accumulators go through the epilogue tree.
EpiKernel ==
  /\ epc = "args"
  /\ \E seed \in DOMAIN AccVals(problem.ElementAcc) :
       /\ accum' = AccumTile(problem.ElementAcc, problem.M, problem.N, seed)
       /\ D' = EpilogueTile(problem.Epilogue, problem.ElementD, evt_args, accum')
  /\ epc' = "done"
  /\ UNCHANGED <<problem, evt_args>>
  /\ UNCHANGED <<cfgVars, callVars>>

EpiNext == EpiPrepareArgs \/ EpiKernel

(***************************************************************************)
(* The epilogue formulas, written out element by element.                  *)
(***************************************************************************)
\* scale[k] of a scale tensor: its single value when it has one element.
ScaleAt(tensor, k) == IF numel(tensor) = 1 THEN tensor.data[1] ELSE tensor.data[k]

\* The accumulator as the float the scale chain starts from.
AccFloat(a) == Convert("float", a.t, a.v)

\* bias[j] as a float; 0 when the call passes no bias.
BiasAt(bias, j) == IF bias = <<>> THEN <<0, 0>> ELSE bias[1].data[j]

\* x * 2^k, exactly.
Scaled(x, k) == IF x[1] = 0 THEN x ELSE <<x[1], x[2] + k>>

Done == epc = "done"

Elements == {<<i, j>> \in (1..MaxM) \X (1..MaxN) : i <= problem.M /\ j <= problem.N}

IsEpilogue(ep) == Done /\ problem.Epilogue = ep

\* C1: in the ScaleOnly epilogue every output element is
\* scaleA[i] * (scaleB[j] * accum[i,j]), scaleB multiplied in first, scaleA
\* by row and scaleB by column (or their single value); with scalar scales
\* 0.5 and 0.25 every output is 0.125 * accum[i,j] in the output type.
C1_ScaleOnly ==
  IsEpilogue("ScaledEpilogue") =>
    \A x \in Elements :
      LET i == x[1]
          j == x[2]
          acc == AccFloat(accum[i][j])
      IN  /\ D[i][j] =
               Convert(problem.ElementD, "float",
                 FMul(ScaleAt(problem.a_scales, i),
                      FMul(ScaleAt(problem.b_scales, j), acc)))
          /\ ( /\ problem.a_scales.data = <<ScaleVals[1]>>
               /\ problem.b_scales.data = <<ScaleVals[2]>> )
             => D[i][j] = Convert(problem.ElementD, "float", Scaled(acc, -3))

C1_Witness ==
  /\ IsEpilogue("ScaledEpilogue")
  /\ problem.M = MaxM /\ problem.N = MaxN
  /\ problem.a_scales.data = <<ScaleVals[1]>>
  /\ problem.b_scales.data = <<ScaleVals[2]>>
  /\ problem.ElementAcc = "int32_t"
  /\ D[1][1] = <<7, -3>>

\* C2: in the ScaleBias epilogue every output element is
\* scaleA[i] * (scaleB[j] * accum[i,j]) + bias[j], the bias a vector of
\* length N read by column, added by the multiply-add that applies scaleA.
C2_ScaleBias ==
  IsEpilogue("ScaledEpilogueBias") =>
    /\ Len(problem.bias[1].data) = problem.N
    /\ \A x \in Elements :
         LET i == x[1]
             j == x[2]
         IN  D[i][j] =
               Convert(problem.ElementD, "float",
                 FMulAdd(ScaleAt(problem.a_scales, i),
                         FMul(ScaleAt(problem.b_scales, j), AccFloat(accum[i][j])),
                         problem.bias[1].data[j]))

C2_Witness ==
  /\ IsEpilogue("ScaledEpilogueBias")
  /\ problem.M = MaxM /\ problem.N = MaxN
  /\ numel(problem.a_scales) = MaxM
  /\ numel(problem.b_scales) = MaxN
  /\ problem.bias[1].data[1] # problem.bias[1].data[MaxN]
  /\ D[1][1] # D[1][MaxN]

\* C3: in the per-tensor zero-point epilogue every output element is
\* scaleA[i] * (scaleB[j] * (accum[i,j] - zpAdj[j])) + bias[j], zpAdj a
\* vector of length N read by column and used as given.
C3_AzpPerTensor ==
  IsEpilogue("ScaledEpilogueBiasAzp") =>
    /\ Len(problem.azp_adj.data) = problem.N
    /\ \A x \in Elements :
         LET i == x[1]
             j == x[2]
             diff == Add32(accum[i][j].v, Neg32(problem.azp_adj.data[j]))
         IN  D[i][j] =
               Convert(problem.ElementD, "float",
                 FMulAdd(ScaleAt(problem.a_scales, i),
                         FMul(ScaleAt(problem.b_scales, j),
                              Convert("float", "int32_t", diff)),
                         BiasAt(problem.bias, j)))

C3_Witness ==
  /\ IsEpilogue("ScaledEpilogueBiasAzp")
  /\ problem.M = MaxM /\ problem.N = MaxN
  /\ problem.bias # <<>>
  /\ accum[1][1].v = 7
  /\ problem.azp_adj.data[1] = 4
  /\ problem.a_scales.data = <<ScaleVals[1]>>
  /\ problem.b_scales.data = <<ScaleVals[2]>>
  /\ D[1][1] = <<15, -3>>

\* C4: in the per-token zero-point epilogue every output element is
\* scaleA[i] * (scaleB[j] * (accum[i,j] - zp[i] * zpAdj[j])) + bias[j], zp a
\* vector of length M read by row, zpAdj a vector of length N read by
\* column: the correction is formed per element from M + N values.
C4_AzpPerToken ==
  IsEpilogue("ScaledEpilogueBiasAzpToken") =>
    /\ Len(problem.azp.data) = problem.M
    /\ Len(problem.azp_adj.data) = problem.N
    /\ \A x \in Elements :
         LET i == x[1]
             j == x[2]
             corr == Mul32(problem.azp.data[i], problem.azp_adj.data[j])
             diff == Add32(accum[i][j].v, Neg32(corr))
         IN  D[i][j] =
               Convert(problem.ElementD, "float",
                 FMulAdd(ScaleAt(problem.a_scales, i),
                         FMul(ScaleAt(problem.b_scales, j),
                              Convert("float", "int32_t", diff)),
                         BiasAt(problem.bias, j)))

C4_Witness ==
  /\ IsEpilogue("ScaledEpilogueBiasAzpToken")
  /\ problem.M = MaxM /\ problem.N = MaxN
  /\ problem.azp.data[1] # problem.azp.data[MaxM]
  /\ problem.azp_adj.data[1] # problem.azp_adj.data[MaxN]
  /\ problem.bias = <<>>
  /\ accum[1][1].v = 7
  /\ problem.azp.data[1] = 3 /\ problem.azp_adj.data[1] = 4
  /\ problem.a_scales.data = <<ScaleVals[1]>>
  /\ problem.b_scales.data = <<ScaleVals[2]>>
  /\ D[1][1] = <<-5, -3>>

\* C5: in every epilogue the scale-A and the scale-B loader are in vector
\* mode exactly when the tensor's element count is not 1, whatever its
\* shape and whatever M and N are; a one-element scale tensor's single value
\* reaches every row (scale-A) or column (scale-B).
C5_BroadcastByCount ==
  epc # "init" =>
    /\ evt_args[1].broadcast = (numel(problem.a_scales) # 1)
    /\ evt_args[2][1].broadcast = (numel(problem.b_scales) # 1)
    /\ numel(problem.a_scales) = 1 =>
         \A i \in 1..problem.M :
           Visit(ScaleA, evt_args[1], <<>>, i, 1).v = problem.a_scales.data[1]
    /\ numel(problem.b_scales) = 1 =>
         \A j \in 1..problem.N :
           Visit(ScaleB, evt_args[2][1], <<>>, 1, j).v = problem.b_scales.data[1]

C5_Witness ==
  /\ epc = "args"
  /\ problem.M = MaxM /\ problem.N = MaxN
  /\ problem.a_scales.shape = <<1, 1>>
  /\ problem.b_scales.shape = <<1, MaxN>>
  /\ ~evt_args[1].broadcast
  /\ evt_args[2][1].broadcast

\* A one-element scalar descriptor of value c.
ScalarTensor(c) == [shape |-> <<1>>, data |-> <<c>>]

IsConstVector(tensor, len) ==
  /\ Len(tensor.data) = len
  /\ \A k \in 1..len : tensor.data[k] = tensor.data[1]

\* The output tile of the kernel's epilogue on the call's accumulators, had
\* the call passed the epilogue tensors q.
OutputWith(q) ==
  EpilogueTile(problem.Epilogue, problem.ElementD,
               prepare_args(problem.Epilogue, problem.ElementD, q), accum)

\* C6: in every epilogue, replacing a scale-A vector (length M) or a scale-B
\* vector (length N) whose elements all equal c by a one-element scalar
\* descriptor of value c leaves every output element unchanged.
C6_BroadcastEquivalence ==
  Done =>
    /\ IsConstVector(problem.a_scales, problem.M) =>
         D = OutputWith([problem EXCEPT
                           !.a_scales = ScalarTensor(problem.a_scales.data[1])])
    /\ IsConstVector(problem.b_scales, problem.N) =>
         D = OutputWith([problem EXCEPT
                           !.b_scales = ScalarTensor(problem.b_scales.data[1])])

C6_Witness ==
  /\ IsEpilogue("ScaledEpilogueBiasAzpToken")
  /\ problem.M = MaxM /\ problem.N = MaxN
  /\ IsConstVector(problem.a_scales, MaxM) /\ problem.a_scales.shape = <<MaxM, 1>>
  /\ IsConstVector(problem.b_scales, MaxN) /\ problem.b_scales.shape = <<1, MaxN>>
  /\ evt_args[1].broadcast /\ evt_args[2][1].broadcast

\* C7: when every entry of the per-row zero point equals z, the per-token
\* epilogue's output is the per-tensor epilogue's output for the adjustment
\* vector z * zpAdj, with the same accumulators, scales and bias.
C7_ZeroPointEquivalence ==
  ( /\ IsEpilogue("ScaledEpilogueBiasAzpToken")
    /\ IsConstVector(problem.azp, problem.M) ) =>
    LET z == problem.azp.data[1]
        scaledAdj == [problem.azp_adj EXCEPT
                        !.data = [k \in DOMAIN problem.azp_adj.data |->
                                    Mul32(z, problem.azp_adj.data[k])]]
    IN  D = EpilogueTile("ScaledEpilogueBiasAzp", problem.ElementD,
                         ScaledEpilogueBiasAzp_prepare_args(
                           problem.ElementD, problem.a_scales, problem.b_scales,
                           scaledAdj, problem.bias),
                         accum)

C7_Witness ==
  /\ IsEpilogue("ScaledEpilogueBiasAzpToken")
  /\ problem.M = MaxM /\ problem.N = MaxN
  /\ IsConstVector(problem.azp, MaxM)
  /\ problem.azp.data[1] = -2
  /\ problem.azp_adj.data[1] # problem.azp_adj.data[MaxN]
  /\ problem.bias # <<>>
  /\ numel(problem.a_scales) = MaxM

(***************************************************************************)
(* The kernel configurations, one per element type and bucket of M.  A     *)
(* configuration that names no TileSchedule gets cutlass_3x_gemm's default *)
(* one.                                                                    *)
(***************************************************************************)
DefaultTileSchedule == "PersistentScheduler"

Gemm(Name, KernelSchedule, EpilogueSchedule, TileShape, ClusterShape, AccType, TileSchedule) ==
  [Name |-> Name, KernelSchedule |-> KernelSchedule,
   EpilogueSchedule |-> EpilogueSchedule, TileShape |-> TileShape,
   ClusterShape |-> ClusterShape, AccType |-> AccType,
   TileSchedule |-> TileSchedule]

sm90_fp16_config_default ==
  Gemm("sm90_fp16_config_default", "KernelTmaWarpSpecializedPingpong",
       "TmaWarpSpecialized", <<128, 128, 128>>, <<2, 1, 1>>, "float",
       DefaultTileSchedule)

sm90_bf16_config_default ==
  Gemm("sm90_bf16_config_default", "KernelTmaWarpSpecializedPingpong",
       "TmaWarpSpecialized", <<128, 128, 128>>, <<2, 1, 1>>, "float",
       DefaultTileSchedule)

sm90_fp8_config_default ==
  Gemm("sm90_fp8_config_default", "KernelTmaWarpSpecializedPingpongFP8FastAccum",
       "TmaWarpSpecialized", <<128, 128, 128>>, <<2, 1, 1>>, "float",
       DefaultTileSchedule)

sm90_fp8_config_M64 ==
  Gemm("sm90_fp8_config_M64", "KernelTmaWarpSpecializedPingpongFP8FastAccum",
       "TmaWarpSpecializedCooperative", <<64, 64, 256>>, <<1, 1, 1>>, "float",
       "PersistentScheduler")

\* Faulty variant: the tile's M and N extents exchanged.
sm90_fp8_config_M128_TileSwapped ==
  Gemm("sm90_fp8_config_M128", "KernelTmaWarpSpecializedCooperativeFP8FastAccum",
       "TmaWarpSpecializedCooperative", <<64, 128, 256>>, <<1, 1, 1>>, "float",
       "PersistentScheduler")

sm90_fp8_config_M128 ==
  Gemm("sm90_fp8_config_M128", "KernelTmaWarpSpecializedCooperativeFP8FastAccum",
       "TmaWarpSpecializedCooperative", <<128, 64, 256>>, <<1, 1, 1>>, "float",
       "PersistentScheduler")

sm90_fp8_config_M256 ==
  Gemm("sm90_fp8_config_M256", "KernelTmaWarpSpecializedCooperativeFP8FastAccum",
       "TmaWarpSpecializedCooperative", <<128, 128, 256>>, <<1, 1, 1>>, "float",
       "PersistentScheduler")

sm90_fp8_config_M512 ==
  Gemm("sm90_fp8_config_M512", "KernelTmaWarpSpecializedPingpongFP8FastAccum",
       "TmaWarpSpecializedCooperative", <<256, 128, 128>>, <<1, 1, 1>>, "float",
       "PersistentScheduler")

sm90_int8_config_default ==
  Gemm("sm90_int8_config_default", "KernelTmaWarpSpecializedPingpong",
       "TmaWarpSpecialized", <<128, 128, 128>>, <<2, 1, 1>>, "int32_t",
       DefaultTileSchedule)

sm90_int8_config_M128 ==
  Gemm("sm90_int8_config_M128", "KernelTmaWarpSpecializedPingpong",
       "TmaWarpSpecialized", <<64, 128, 128>>, <<2, 1, 1>>, "int32_t",
       DefaultTileSchedule)

sm90_int8_config_M64 ==
  Gemm("sm90_int8_config_M64", "KernelTmaWarpSpecialized",
       "TmaWarpSpecialized", <<64, 64, 256>>, <<1, 1, 1>>, "int32_t",
       DefaultTileSchedule)

\* Faulty variant: the cluster of the small-N configuration.
sm90_int8_config_M32_NBig_Cluster8 ==
  Gemm("sm90_int8_config_M32_NBig", "KernelTmaWarpSpecialized",
       "TmaWarpSpecialized", <<64, 128, 256>>, <<1, 8, 1>>, "int32_t",
       DefaultTileSchedule)

sm90_int8_config_M32_NBig ==
  Gemm("sm90_int8_config_M32_NBig", "KernelTmaWarpSpecialized",
       "TmaWarpSpecialized", <<64, 128, 256>>, <<1, 4, 1>>, "int32_t",
       DefaultTileSchedule)

sm90_int8_config_M32_NSmall ==
  Gemm("sm90_int8_config_M32_NSmall", "KernelTmaWarpSpecialized",
       "TmaWarpSpecialized", <<64, 64, 256>>, <<1, 8, 1>>, "int32_t",
       DefaultTileSchedule)

(***************************************************************************)
(* The selection of a configuration from the element type of the operands *)
(* and the output shape (M, N).                                            *)
(***************************************************************************)
sm90_fp8_dispatch(M, N) ==
  IF M <= 64 THEN sm90_fp8_config_M64
  ELSE IF M <= 128 THEN sm90_fp8_config_M128
  ELSE IF M <= 256 THEN sm90_fp8_config_M256
  ELSE sm90_fp8_config_M512

sm90_int8_dispatch(M, N) ==
  IF M <= 32
    THEN IF N < 8192 THEN sm90_int8_config_M32_NSmall ELSE sm90_int8_config_M32_NBig
  ELSE IF M <= 64 THEN sm90_int8_config_M64
  ELSE IF M <= 128 THEN sm90_int8_config_M128
  ELSE sm90_int8_config_default

ElementTypes == {"half_t", "bfloat16_t", "float_e4m3_t", "int8_t"}

SelectConfig(InType, M, N) ==
  CASE InType = "half_t" -> sm90_fp16_config_default
    [] InType = "bfloat16_t" -> sm90_bf16_config_default
    [] InType = "float_e4m3_t" -> sm90_fp8_dispatch(M, N)
    [] InType = "int8_t" -> sm90_int8_dispatch(M, N)

\* The selection as a state machine: a query (element type, M, N) and the
\* configuration selected for it.
\* Largest M of a query, and the values of N queried.
MaxQueryM == 260
QueryN == {1, 128, 8191, 8192, 8193}

NoConfig == Gemm("none", "none", "none", <<0, 0, 0>>, <<0, 0, 0>>, "none", "none")

CfgInit ==
  /\ query \in [InType : ElementTypes, M : 1..MaxQueryM, N : QueryN]
  /\ config = NoConfig

CfgSelect ==
  /\ config = NoConfig
  /\ config' = SelectConfig(query.InType, query.M, query.N)
  /\ UNCHANGED query
  /\ UNCHANGED <<epiVars, callVars>>

CfgNext == CfgSelect

(***************************************************************************)
(* cutlass_sparse_gemm_caller.  Calls run concurrently, each through the   *)
(* steps of the function: build the kernel arguments, can_implement,       *)
(* get_workspace_size, torch::empty, run, and the check of run's status.   *)
(* A launched kernel executes later, on the device.                        *)
(***************************************************************************)
\* The number of calls.
NCalls == 2

Calls == 1..NCalls

\* The workspace buffers the allocator can hand out: one for every call.
Buffers == 1..NCalls

\* The sizes a kernel asks for: no workspace, or some.
WorkspaceSizes == {0, 1}

\* No workspace (yet), and the pointer of a tensor without storage.
NoBuffer == 0
None == -1

\* cutlass::Status, as far as the caller tells its values apart.
Statuses == {"kSuccess", "kErrorInvalidProblem", "kErrorInternal"}

\* The compute capabilities of the devices of the model (times 100).
Archs == {890, 900, 1000}

\* The elements per row of the compressed operand a.
CompressedK == 4

\* OpClassSparseTensorOp: of every SparsityRatio consecutive elements of a
\* row of the logical a, the compressed a stores one.
SparsityRatio == 2

\* What the caller left in the output tensor before the call.
OutBefore(M, N) == [i \in 1..M |-> [j \in 1..N |-> <<1, 0>>]]

\* The calls of the model: int8 operands a (compressed, row-major) and b
\* (column-major), the output and the epilogue tensors.  seed stands for the
\* contents of a, e and b: it decides the accumulators.
\* The output shape (M, N) of the calls of the model.
CallShape == <<1, 2>>

CallProblem(ep) ==
  LET M == CallShape[1]
      N == CallShape[2]
  IN  [Epilogue |-> ep, ElementD |-> "half", ElementAcc |-> "int32_t",
       M |-> M, N |-> N,
       a_scales |-> [shape |-> <<1>>, data |-> <<ScaleVals[1]>>],
       b_scales |-> [shape |-> <<1, N>>, data |-> Ramp(ScaleVals, 1, N)],
       bias |-> <<>>,
       azp |-> IF ep = "ScaledEpilogueBiasAzpToken"
                 THEN [shape |-> <<M, 1>>, data |-> Ramp(AzpVals, 1, M)]
                 ELSE NoTensor,
       azp_adj |-> IF HasAzp(ep)
                     THEN [shape |-> <<1, N>>, data |-> Ramp(AzpAdjVals, 1, N)]
                     ELSE NoTensor]

CallInputs ==
  {[a |-> [shape |-> <<p.M, CompressedK>>, stride |-> <<CompressedK, 1>>],
    b |-> [shape |-> <<SparsityRatio * CompressedK, p.N>>,
          stride |-> <<1, SparsityRatio * CompressedK>>],
    out |-> [shape |-> <<p.M, p.N>>, stride |-> <<p.N, 1>>],
    InType |-> "int8_t", epilogue |-> p, seed |-> 1] :
     p \in {CallProblem(ep) : ep \in {"ScaledEpilogue", "ScaledEpilogueBiasAzpToken"}}}

\* Lines 420-462: the problem shape and the strides from the tensors'
\* extents, the layouts of a and e from the problem shape, and the
\* epilogue's arguments.
fill_layout(prob_shape) == [shape |-> prob_shape]

Arguments(in) ==
  LET m == in.a.shape[1]
      n == in.b.shape[2]
      k == in.a.shape[2]
      lda == in.a.stride[1]
      ldb == in.b.stride[2]
      ldc == in.out.stride[1]
      prob_shape == <<m, n, k, 1>>
  IN  [mode |-> "kGemm",
       prob_shape |-> prob_shape,
       mainloop |-> [a_layout |-> fill_layout(prob_shape), b_stride |-> <<ldb, 1, 0>>,
                     e_layout |-> fill_layout(prob_shape)],
       epilogue |-> [thread |-> prepare_args(in.epilogue.Epilogue,
                                             in.epilogue.ElementD, in.epilogue),
                     c_stride |-> <<ldc, 1, 0>>]]

\* The allocator's heap: the live buffers, each with the size it was
\* allocated with.
EmptyHeap == [buf \in {} |-> 0]

\* Faulty variant: one workspace kept for all calls.
FreshBuffers_Shared(h) == {1}

\* torch::empty: the storage of a new tensor is a buffer no live tensor holds.
FreshBuffers(h) == Buffers \ DOMAIN h

\* CUTLASS_CHECK(status): passes on kSuccess and throws otherwise.
CUTLASS_CHECK(status) == status = "kSuccess"

\* Faulty variant: the result of can_implement is not checked.
AfterCanImplement_Unchecked(status) == "checked"

\* Line 467: where the call stands after CUTLASS_CHECK(can_implement(args)).
AfterCanImplement(status) == IF CUTLASS_CHECK(status) THEN "checked" ELSE "thrown"

CallInit ==
  /\ pc = [c \in Calls |-> "idle"]
  /\ input = [c \in Calls |-> <<>>]
  /\ gemm = [c \in Calls |-> NoConfig]
  /\ gemm_args = [c \in Calls |-> <<>>]
  /\ can_status = [c \in Calls |-> "none"]
  /\ workspace_size = [c \in Calls |-> None]
  /\ workspace = [c \in Calls |-> None]
  /\ run_status = [c \in Calls |-> "none"]
  /\ heap = EmptyHeap
  /\ pending = {}
  /\ launches = {}
  /\ out = [c \in Calls |-> <<>>]
  /\ arch \in Archs

\* A caller enters with its tensors; the function builds the arguments.
\* Calls enter in the order of their numbers, and the calls of a behaviour
\* are calls of one instantiation of the template: of one Gemm and Epilogue.
Call(c) ==
  /\ pc[c] = "idle"
  /\ \A b \in Calls : b < c => pc[b] # "idle"
  /\ \E in \in CallInputs :
       /\ \A b \in Calls : b < c => input[b].epilogue.Epilogue = in.epilogue.Epilogue
       /\ input' = [input EXCEPT ![c] = in]
       /\ gemm' = [gemm EXCEPT ![c] = SelectConfig(in.InType, in.out.shape[1],
                                                    in.out.shape[2])]
       /\ gemm_args' = [gemm_args EXCEPT ![c] = Arguments(in)]
       /\ out' = [out EXCEPT ![c] = OutBefore(in.out.shape[1], in.out.shape[2])]
  /\ pc' = [pc EXCEPT ![c] = "args"]
  /\ UNCHANGED <<can_status, workspace_size, workspace, run_status, heap, pending,
                 launches, arch>>
  /\ UNCHANGED <<epiVars, cfgVars>>

\* Line 467: CUTLASS_CHECK(gemm_op.can_implement(args)).
CanImplement(c) ==
  /\ pc[c] = "args"
  /\ \E status \in Statuses :
       /\ can_status' = [can_status EXCEPT ![c] = status]
       /\ pc' = [pc EXCEPT ![c] = AfterCanImplement(status)]
  /\ UNCHANGED <<input, gemm, gemm_args, workspace_size, workspace, run_status, heap,
                 pending, launches, out, arch>>
  /\ UNCHANGED <<epiVars, cfgVars>>

\* Line 469: the size the kernel reports for the arguments.
GetWorkspaceSize(c) ==
  /\ pc[c] = "checked"
  /\ \E size \in WorkspaceSizes :
       workspace_size' = [workspace_size EXCEPT ![c] = size]
  /\ pc' = [pc EXCEPT ![c] = "sized"]
  /\ UNCHANGED <<input, gemm, gemm_args, can_status, workspace, run_status, heap,
                 pending, launches, out, arch>>
  /\ UNCHANGED <<epiVars, cfgVars>>

\* Lines 470-472: torch::empty(workspace_size): a buffer no live tensor
\* holds; a tensor of no elements has no storage.
Allocate(c) ==
  /\ pc[c] = "sized"
  /\ IF workspace_size[c] = 0
       THEN /\ workspace' = [workspace EXCEPT ![c] = NoBuffer]
            /\ heap' = heap
       ELSE \E buf \in FreshBuffers(heap) :
              /\ workspace' = [workspace EXCEPT ![c] = buf]
              /\ heap' = [b \in DOMAIN heap \cup {buf} |->
                            IF b = buf THEN workspace_size[c] ELSE heap[b]]
  /\ pc' = [pc EXCEPT ![c] = "allocated"]
  /\ UNCHANGED <<input, gemm, gemm_args, can_status, workspace_size, run_status,
                 pending, launches, out, arch>>
  /\ UNCHANGED <<epiVars, cfgVars>>

\* Lines 474-476: gemm_op.run(args, workspace.data_ptr(), stream) enqueues
\* the kernel on the stream, or fails and enqueues nothing.
Run(c) ==
  /\ pc[c] = "allocated"
  /\ \E status \in {"kSuccess", "kErrorInternal"} :
       /\ run_status' = [run_status EXCEPT ![c] = status]
       /\ IF status = "kSuccess"
            THEN /\ pending' = pending \cup {c}
                 /\ launches' = launches \cup {[call |-> c, workspace |-> workspace[c]]}
            ELSE UNCHANGED <<pending, launches>>
  /\ pc' = [pc EXCEPT ![c] = "ran"]
  /\ UNCHANGED <<input, gemm, gemm_args, can_status, workspace_size, workspace, heap,
                 out, arch>>
  /\ UNCHANGED <<epiVars, cfgVars>>

\* Line 477: CUTLASS_CHECK(status); the function returns or throws, and the
\* workspace tensor goes out of scope either way.
Return(c) ==
  /\ pc[c] = "ran"
  /\ pc' = [pc EXCEPT ![c] = IF CUTLASS_CHECK(run_status[c]) THEN "returned" ELSE "thrown"]
  /\ heap' = [b \in DOMAIN heap \ {workspace[c]} |-> heap[b]]
  /\ UNCHANGED <<input, gemm, gemm_args, can_status, workspace_size, workspace,
                 run_status, pending, launches, out, arch>>
  /\ UNCHANGED <<epiVars, cfgVars>>

\* Faulty variant: the guard excludes compute capability 9.0 itself.
KernelRuns_Above(cuda_arch) == cuda_arch > 900

\* enable_sm90_or_later::operator(): the kernel's body runs on compute
\* capability 9.0 or later and is empty otherwise.
KernelRuns(cuda_arch) == cuda_arch >= 900

\* The device executes a launched kernel: the mainloop's accumulators go
\* through the epilogue into the output tensor.
Kernel(c) ==
  /\ c \in pending
  /\ pending' = pending \ {c}
  /\ IF KernelRuns(arch)
       THEN LET p == input[c].epilogue
                acc == AccumTile(p.ElementAcc, p.M, p.N, input[c].seed)
            IN  out' = [out EXCEPT ![c] = EpilogueTile(p.Epilogue, p.ElementD,
                                            gemm_args[c].epilogue.thread, acc)]
       ELSE out' = out
  /\ UNCHANGED <<pc, input, gemm, gemm_args, can_status, workspace_size, workspace,
                 run_status, heap, launches, arch>>
  /\ UNCHANGED <<epiVars, cfgVars>>

CallNext ==
  \E c \in Calls :
    \/ Call(c)
    \/ CanImplement(c)
    \/ GetWorkspaceSize(c)
    \/ Allocate(c)
    \/ Run(c)
    \/ Return(c)
    \/ Kernel(c)

(***************************************************************************)
(* The specifications: the calls, the epilogue of one kernel, and the      *)
(* selection of a configuration.  Each leaves the others' state alone.     *)
(***************************************************************************)
EpiIdle ==
  /\ problem = <<>> /\ evt_args = <<>> /\ accum = <<>> /\ D = <<>> /\ epc = "idle"

CfgIdle == query = <<>> /\ config = NoConfig

CallIdle ==
  /\ pc = <<>> /\ input = <<>> /\ gemm = <<>> /\ gemm_args = <<>>
  /\ can_status = <<>> /\ workspace_size = <<>> /\ workspace = <<>>
  /\ run_status = <<>> /\ heap = EmptyHeap /\ pending = {} /\ launches = {}
  /\ out = <<>> /\ arch = 900

Init == CallInit /\ EpiIdle /\ CfgIdle

Next == CallNext

Spec == Init /\ [][Next]_vars

InitEpilogue == EpiInit /\ CfgIdle /\ CallIdle

SpecEpilogue == InitEpilogue /\ [][EpiNext]_vars

InitConfig == CfgInit /\ EpiIdle /\ CallIdle

SpecConfig == InitConfig /\ [][CfgNext]_vars

(***************************************************************************)
(* The selection of a configuration.                                       *)
(***************************************************************************)
Selected(InType) == query.InType = InType /\ config # NoConfig

\* The number of thread blocks of a cluster.
ClusterSize(cfg) == cfg.ClusterShape[1] * cfg.ClusterShape[2] * cfg.ClusterShape[3]

Uses(tile, ways) == config.TileShape = tile /\ ClusterSize(config) = ways

\* The buckets of the 8-bit integer family, in the order of the table.
Int8Bucket(M, N) ==
  << M <= 32 /\ N >= 8192, M <= 32 /\ N < 8192, 32 < M /\ M <= 64,
     64 < M /\ M <= 128, M > 128 >>

\* The buckets of the 8-bit float family.
Fp8Bucket(M) == << M <= 64, 64 < M /\ M <= 128, 128 < M /\ M <= 256, M > 256 >>

ExactlyOne(bucket) == Cardinality({k \in DOMAIN bucket : bucket[k]}) = 1

\* C8: for 8-bit integer operands and every M >= 1 and N, exactly one bucket
\* of the table applies and the configuration selected is the bucket's:
\* M <= 32 and N >= 8192: tile 64x128x256, 4-way cluster; M <= 32 and
\* N < 8192: tile 64x64x256, 8-way cluster; 32 < M <= 64: tile 64x64x256,
\* unit cluster; 64 < M <= 128: tile 64x128x128, two-way cluster; M > 128:
\* tile 128x128x128, two-way cluster.  Above M = 32 the selection is the
\* same for every N.
C8_Int8Selection ==
  Selected("int8_t") =>
    LET M == query.M
        N == query.N
        bucket == Int8Bucket(M, N)
    IN  /\ ExactlyOne(bucket)
        /\ bucket[1] => Uses(<<64, 128, 256>>, 4)
        /\ bucket[2] => Uses(<<64, 64, 256>>, 8)
        /\ bucket[3] => Uses(<<64, 64, 256>>, 1)
        /\ bucket[4] => Uses(<<64, 128, 128>>, 2)
        /\ bucket[5] => Uses(<<128, 128, 128>>, 2)
        /\ M > 32 => \A n \in QueryN : SelectConfig("int8_t", M, n) = config

\* The selections on both sides of the boundary N = 8192, at the boundary
\* M = 32.
C8_Witness ==
  /\ Selected("int8_t")
  /\ query.M = 32
  /\ query.N = 8192
  /\ Uses(<<64, 128, 256>>, 4)
  /\ SelectConfig("int8_t", 32, 8191).TileShape = <<64, 64, 256>>
  /\ SelectConfig("int8_t", 33, 8192).ClusterShape = <<1, 1, 1>>

Launched(c) == \E l \in launches : l.call = c

Entered(c) == pc[c] # "idle"

OutUnchanged(c) == out[c] = OutBefore(input[c].out.shape[1], input[c].out.shape[2])

\* C10: in every call, a workspace is sized or allocated and the kernel is
\* enqueued only after can_implement has succeeded; a call whose
\* can_implement fails has thrown, has no workspace, its kernel is not and
\* was never enqueued, and its output tensor holds what it held before.
C10_ValidateBeforeLaunch ==
  \A c \in Calls :
    /\ (workspace_size[c] # None \/ workspace[c] # None \/ Launched(c) \/ c \in pending)
         => can_status[c] = "kSuccess"
    /\ (Entered(c) /\ can_status[c] \notin {"none", "kSuccess"})
         => /\ pc[c] = "thrown"
            /\ workspace_size[c] = None /\ workspace[c] = None
            /\ ~Launched(c) /\ c \notin pending
            /\ OutUnchanged(c)

\* One call has failed the check while another, which passed it, has run
\* its kernel and written its output.
C10_Witness ==
  \E c, d \in Calls :
    /\ can_status[c] = "kErrorInvalidProblem" /\ pc[c] = "thrown" /\ OutUnchanged(c)
    /\ can_status[d] = "kSuccess" /\ Launched(d) /\ d \notin pending
    /\ ~OutUnchanged(d)

\* C11: the problem shape of a call, handed to the layout functions of a
\* and e and to the kernel, is (M, N, K) with M the rows of the compressed
\* a, N the columns of b, and K the sparsity ratio times the stored columns
\* of a: the logical K, which is the rows of b.
C11_ShapeDerivation ==
  \A c \in Calls :
    Entered(c) =>
      LET in == input[c]
          R == in.a.shape[1]
          C == in.a.shape[2]
          shape == <<R, in.b.shape[2], SparsityRatio * C, 1>>
      IN  /\ gemm_args[c].prob_shape = shape
          /\ gemm_args[c].mainloop.a_layout = fill_layout(shape)
          /\ gemm_args[c].mainloop.e_layout = fill_layout(shape)

\* A call holds its workspace tensor from torch::empty to the end of the
\* function.
Holds(c) == pc[c] \in {"allocated", "ran"}

\* C12 as amended: every call allocates its workspace within the call, of
\* exactly the size get_workspace_size reported for its arguments (no
\* storage when that size is 0), and passes that buffer to the launch; two
\* calls that hold a workspace at the same time hold different buffers.
C12_WorkspaceIsolation ==
  \A c \in Calls :
    /\ Holds(c) =>
         IF workspace_size[c] = 0
           THEN workspace[c] = NoBuffer
           ELSE /\ workspace[c] \in DOMAIN heap
                /\ heap[workspace[c]] = workspace_size[c]
    /\ \A l \in launches : l.call = c => l.workspace = workspace[c]
    /\ \A d \in Calls \ {c} :
         (Holds(c) /\ Holds(d) /\ workspace[c] # NoBuffer)
           => workspace[c] # workspace[d]

\* Two calls hold workspaces at the same time, and both have launched.
C12_Witness ==
  \E c, d \in Calls :
    /\ c # d /\ Holds(c) /\ Holds(d)
    /\ workspace[c] \in DOMAIN heap /\ workspace[d] \in DOMAIN heap
    /\ Launched(c) /\ Launched(d)

\* C12 as stated: moreover no two calls ever pass the same buffer to a
\* launch: a call never passes a buffer an earlier call passed.
C12_NeverReused ==
  /\ C12_WorkspaceIsolation
  /\ \A l1, l2 \in launches :
       (l1.call # l2.call /\ l1.workspace # NoBuffer) => l1.workspace # l2.workspace

\* The device has executed the kernel the call launched.
Executed(c) == Launched(c) /\ c \notin pending

\* What the wrapped kernel writes to the output tensor of a call.
KernelOutput(c) ==
  LET p == input[c].epilogue
  IN  EpilogueTile(p.Epilogue, p.ElementD,
                   prepare_args(p.Epilogue, p.ElementD, p),
                   AccumTile(p.ElementAcc, p.M, p.N, input[c].seed))

\* C13: a launched kernel that has executed has run the wrapped kernel, and
\* written the output tensor, exactly when the device's compute capability
\* is 9.0 or above; on an older device the output tensor holds what it held
\* before the call.  The host launches the kernel on every device: until
\* the kernel executes, the output tensor is unchanged whatever the device.
C13_ExecutionGuard ==
  \A c \in Calls :
    /\ Executed(c) =>
         IF arch >= 900
           THEN out[c] = KernelOutput(c) /\ ~OutUnchanged(c)
           ELSE OutUnchanged(c)
    /\ (Entered(c) /\ ~Executed(c)) => OutUnchanged(c)

\* On a device of compute capability 8.9 the host has launched a kernel and
\* the device has executed it.
C13_Witness ==
  \E c \in Calls : arch = 890 /\ Executed(c) /\ pc[c] = "returned" /\ OutUnchanged(c)

(***************************************************************************)
(* The zero-point epilogues: integer arithmetic, and the optional bias.    *)
(***************************************************************************)
\* The value the zero-point part of the tree hands to the scale chain for
\* element (i, j): the result of EVTComputeAzp (per tensor) and of
\* EVTComputeAcc (per token), with the arguments prepare_args gave them.
Entering(i, j) ==
  IF problem.Epilogue = "ScaledEpilogueBiasAzp"
    THEN Visit(ScaledEpilogueBiasAzp_EVTComputeAzp, evt_args[2][2], accum[i][j], i, j)
    ELSE Visit(ScaledEpilogueBiasAzpToken_EVTComputeAcc, evt_args[2][2], accum[i][j], i, j)

\* The zero-point correction of element (i, j) in int32_t, wrapped to 32 bits.
Corrected32(i, j) ==
  IF problem.Epilogue = "ScaledEpilogueBiasAzp"
    THEN Add32(accum[i][j].v, Neg32(problem.azp_adj.data[j]))
    ELSE Add32(accum[i][j].v,
               Neg32(Mul32(problem.azp.data[i], problem.azp_adj.data[j])))

\* The correction computed on the operands converted to float one by one.
CorrectedInFloat(i, j) ==
  LET f(x) == Convert("float", "int32_t", x)
      sub == IF problem.Epilogue = "ScaledEpilogueBiasAzp"
               THEN f(problem.azp_adj.data[j])
               ELSE FMul(f(problem.azp.data[i]), f(problem.azp_adj.data[j]))
  IN  minus("float", <<f(accum[i][j].v), sub>>)

AzpDone == Done /\ HasAzp(problem.Epilogue)

\* C14: in both zero-point epilogues the value entering the scale chain is
\* the float nearest the int32_t result, wrapped to 32 bits, of accum[i,j]
\* minus zpAdj[j] (per tensor) or minus the int32_t product zp[i] * zpAdj[j]
\* (per token); the steps after it, the product with scaleB and the
\* multiply-add with scaleA and the bias, are computed in float, and the
\* output is their result converted to the output type.
C14_IntegerThenConvert ==
  AzpDone =>
    \A x \in Elements :
      LET i == x[1]
          j == x[2]
          entering == Entering(i, j)
      IN  /\ entering = [t |-> "float",
                         v |-> Convert("float", "int32_t", Corrected32(i, j))]
          /\ D[i][j] =
               Convert(problem.ElementD, "float",
                 multiply_add("float",
                   <<ScaleAt(problem.a_scales, i),
                     multiplies("float", <<ScaleAt(problem.b_scales, j), entering.v>>),
                     BiasAt(problem.bias, j)>>))

\* Per token, with zp[1] * zpAdj[1] = 3 * 2^30 wrapping to -2^30: the value
\* entering the scale chain is float(7 + 2^30) = 2^30 and not the float
\* difference of the operands converted one by one.
C14_Witness ==
  /\ AzpDone
  /\ problem.Epilogue = "ScaledEpilogueBiasAzpToken"
  /\ accum[1][1].v = 7
  /\ problem.azp.data[1] = 3
  /\ problem.azp_adj.data[1] = Pow2(30)
  /\ Corrected32(1, 1) = Pow2(30) + 7
  /\ Entering(1, 1).v = <<1, 30>>
  /\ Entering(1, 1).v # CorrectedInFloat(1, 1)

\* The arguments prepare_args bound for the tensors every call must pass:
\* scale A, scale B, the bias of ScaledEpilogueBias and the zero-point tensors.
MandatoryArgs ==
  LET ep == problem.Epilogue
      scales == <<evt_args[1], evt_args[2][1]>>
  IN  IF ep = "ScaledEpilogue" THEN scales
      ELSE IF ep = "ScaledEpilogueBias" THEN scales \o <<evt_args[3]>>
      ELSE IF ep = "ScaledEpilogueBiasAzp" THEN scales \o <<evt_args[2][2][2]>>
      ELSE scales \o <<evt_args[2][2][2][1], evt_args[2][2][2][2]>>

\* The descriptors of the mandatory tensors.
MandatoryDescriptors ==
  {ScaleA, ScaleB, AzpWithAdj, Azp, AzpAdj} \cup {ScaledEpilogueBias_Bias(d) : d \in {"half", "bfloat16"}}

ZeroBias == [shape |-> <<problem.N>>, data |-> Const(Zero(problem.ElementD), problem.N)]

\* C15: in the two zero-point epilogues an absent bias binds a null pointer,
\* the bias load then yields 0, and the output equals the output of the same
\* call with an all-zero bias vector of length N; a present bias binds its
\* storage.  The descriptors of scale A, scale B, the zero-point tensors and
\* the bias of ScaledEpilogueBias do not take a null pointer, and the pointer
\* bound for each of these tensors is never null.
C15_OptionalBias ==
  Done =>
    /\ HasAzp(problem.Epilogue) =>
         /\ evt_args[3].ptr.null <=> problem.bias = <<>>
         /\ problem.bias = <<>> =>
              /\ \A x \in Elements :
                   LoadRow(IF problem.Epilogue = "ScaledEpilogueBiasAzp"
                             THEN ScaledEpilogueBiasAzp_Bias(problem.ElementD)
                             ELSE ScaledEpilogueBiasAzpToken_Bias(problem.ElementD),
                           evt_args[3], x[1], x[2]).v = Zero(problem.ElementD)
              /\ D = OutputWith([problem EXCEPT !.bias = <<ZeroBias>>])
    /\ \A d \in MandatoryDescriptors : ~IsNullable(d)
    /\ \A k \in 1..Len(MandatoryArgs) : ~MandatoryArgs[k].ptr.null

\* A per-tensor zero-point call without bias: the null pointer is bound and
\* the output, not all zero, is the output with an all-zero bias.
C15_Witness ==
  /\ IsEpilogue("ScaledEpilogueBiasAzp")
  /\ problem.bias = <<>>
  /\ problem.N = MaxN
  /\ evt_args[3].ptr.null
  /\ D = OutputWith([problem EXCEPT !.bias = <<ZeroBias>>])
  /\ D[1][1] # Zero(problem.ElementD)

====
